---- MODULE Spec2Model ----
(***************************************************************************)
(* Model of the pyxpal colour preview extension (src/extension.js and the  *)
(* variant sources in src/unnamed/part_000).                               *)
(*                                                                         *)
(* Text is a sequence of character codes (UTF-16 code units), so that the  *)
(* regular expression, trim, parseInt and toString(16) are computed on     *)
(* characters as the JavaScript does.  Labels and copy arguments are TLA+  *)
(* strings.  A colour channel, a JavaScript double in [0,1], is a          *)
(* fixed-point number with FracBits fractional bits: the value c stands    *)
(* for c / Scale, and every division rounds to the nearest representable   *)
(* value as IEEE arithmetic does.                                          *)
(***************************************************************************)
EXTENDS Integers, Sequences, FiniteSets, TLC

VARIABLES
  hexIn, decoded, encoded, codecPc,           \* codec run
  text, verdict, classPc,                     \* classifier run
  doc, languageId, lastEvent,                 \* the text document and its last event
  diagnosticCollection,                       \* uri -> diagnostics, for the one uri
  colors, colorsPc, colorToken,               \* provideDocumentColors call
  pickRequest, presentations,                 \* provideColorPresentations call
  lenses, lensPc, lensToken, lensVariant,     \* provideCodeLenses call
  pyFile,                                     \* the Python file the call read
  resolved,                                   \* resolveCodeLens result
  clipboard, notifications, copyPc, copyArg,  \* pyxpal.copyLabel
  copyVariant, writeOk,
  activated,                                  \* activate has run, deactivate has not
  activeEditor,                               \* the editor the decorations follow
  timeout, pendingTimers,                     \* let timeout; the timers of the host
  burstLength,                                \* triggers since the run before the last trigger
  runsSinceTrigger,                           \* updateDecorations calls since the last trigger
  labelDecorationCache,                       \* Map<label, TextEditorDecorationType>
  decorationInstances,                        \* context.subscriptions._decorationInstances
  liveHandles,                                \* decoration types created and not disposed
  editorDecorations                           \* what setDecorations has put on the editors

codecVars == <<hexIn, decoded, encoded, codecPc>>
classVars == <<text, verdict, classPc>>
docVars   == <<doc, languageId, lastEvent, diagnosticCollection>>
colorVars == <<colors, colorsPc, colorToken, pickRequest, presentations>>
lensVars  == <<lenses, lensPc, lensToken, lensVariant, pyFile, resolved>>
copyVars  == <<clipboard, notifications, copyPc, copyArg, copyVariant, writeOk>>
decoVars  == <<activated, activeEditor, timeout, pendingTimers, burstLength,
               runsSinceTrigger,
               labelDecorationCache, decorationInstances, liveHandles,
               editorDecorations>>
vars == <<codecVars, classVars, docVars, colorVars, lensVars, copyVars, decoVars>>

----------------------------------------------------------------------------
(* Bounds of the model *)

FracBits == 20      \* fractional bits of a modelled double
MaxLen   == 7       \* longest text handed to the classifier run
MaxLines == 2       \* lines of a document after its padding
PadLen   == 15      \* valid lines a padded document starts with

Scale == 2 ^ FracBits

----------------------------------------------------------------------------
(* Characters *)

IsDigit(c)    == c >= 48 /\ c <= 57          \* 0-9
IsUpperHex(c) == c >= 65 /\ c <= 70          \* A-F
IsLowerHex(c) == c >= 97 /\ c <= 102         \* a-f

\* String.prototype.toUpperCase on one ASCII code unit
ToUpperChar(c) == IF c >= 97 /\ c <= 122 THEN c - 32 ELSE c
ToUpperCase(s) == [i \in 1..Len(s) |-> ToUpperChar(s[i])]

\* WhiteSpace and LineTerminator code units that occur in the modelled texts
IsWhitespace(c) == c \in {9, 10, 11, 12, 13, 32}

RECURSIVE SkipLeft(_, _)
SkipLeft(s, i) ==
  IF i <= Len(s) /\ IsWhitespace(s[i]) THEN SkipLeft(s, i + 1) ELSE i

RECURSIVE SkipRight(_, _)
SkipRight(s, j) ==
  IF j >= 1 /\ IsWhitespace(s[j]) THEN SkipRight(s, j - 1) ELSE j

\* String.prototype.trim
Trim(s) == SubSeq(s, SkipLeft(s, 1), SkipRight(s, Len(s)))

\* TextLine.firstNonWhitespaceCharacterIndex (0-based; the length for a blank line)
FirstNonWhitespaceCharacterIndex(s) == SkipLeft(s, 1) - 1

\* String.prototype.substring(a, b) for 0 <= a <= b
Substring(s, a, b) ==
  SubSeq(s, (IF a > Len(s) THEN Len(s) ELSE a) + 1, IF b > Len(s) THEN Len(s) ELSE b)

----------------------------------------------------------------------------
(* hexRegex: /^[0-9A-Fa-f]{6}$/ with and without the i flag *)

\* the character class [0-9A-Fa-f]
HexClass(c) == IsDigit(c) \/ IsUpperHex(c) \/ IsLowerHex(c)

\* with the i flag a character matches the class when its canonical (upper
\* case) form is the canonical form of a member of the class
CanonicalHexClass == {ToUpperChar(m) : m \in (48..57) \cup (65..70) \cup (97..102)}

HexClassIgnoreCase(c) == ToUpperChar(c) \in CanonicalHexClass

\* {n}: position after n class characters from pos, 0 when the run fails
RECURSIVE MatchRun(_, _, _, _)
MatchRun(s, pos, n, ignoreCase) ==
  IF n = 0 THEN pos
  ELSE IF pos > Len(s) THEN 0
  ELSE IF (IF ignoreCase THEN HexClassIgnoreCase(s[pos]) ELSE HexClass(s[pos]))
       THEN MatchRun(s, pos + 1, n - 1, ignoreCase)
       ELSE 0

RegexQuantifier == 6

\* the pattern without its $ anchor
hexRegexTestUnanchored(s, ignoreCase) ==
  MatchRun(s, 1, RegexQuantifier, ignoreCase) # 0

\* ^ anchors the run at the first character, $ requires the end of input
hexRegexTestFlags(s, ignoreCase) ==
  MatchRun(s, 1, RegexQuantifier, ignoreCase) = Len(s) + 1

\* /^[0-9A-Fa-f]{6}$/i.test(s), the copy of extension.js and of most variants
hexRegexTest(s) == hexRegexTestFlags(s, TRUE)

\* /^[0-9A-Fa-f]{6}$/.test(s), the copy of the swatch variant
hexRegexTestNoFlag(s) == hexRegexTestFlags(s, FALSE)

----------------------------------------------------------------------------
(* Colour codec *)

NaN == -1

\* value of one digit in radix 16, NaN when the character is no digit
HexDigitValue(c) ==
  IF IsDigit(c) THEN c - 48
  ELSE IF IsUpperHex(c) THEN c - 55
  ELSE IF IsLowerHex(c) THEN c - 87
  ELSE NaN

\* parseInt(s, 16): the longest prefix of digits, NaN when it is empty
RECURSIVE ParseIntAcc(_, _, _)
ParseIntAcc(s, i, acc) ==
  IF i > Len(s) \/ HexDigitValue(s[i]) = NaN THEN acc
  ELSE ParseIntAcc(s, i + 1, (IF acc = NaN THEN 0 ELSE acc) * 16 + HexDigitValue(s[i]))

ParseInt16(s) == ParseIntAcc(s, 1, NaN)

\* n / 255 as a double: the nearest representable value
DivBy255(n) == (2 * n * Scale + 255) \div (2 * 255)

\* Math.round(x * 255) for a double x: floor(x * 255 + 0.5)
RoundTimes255(x) == (2 * x * 255 + Scale) \div (2 * Scale)

parseHexColor(hex) ==
  [red   |-> DivBy255(ParseInt16(Substring(hex, 0, 2))),
   green |-> DivBy255(ParseInt16(Substring(hex, 2, 4))),
   blue  |-> DivBy255(ParseInt16(Substring(hex, 4, 6))),
   alpha |-> Scale]

\* Number.prototype.toString(16): lower-case digits, no padding
HexDigitChar(d) == IF d < 10 THEN 48 + d ELSE 87 + d

RECURSIVE ToString16(_)
ToString16(n) ==
  IF n < 16 THEN <<HexDigitChar(n)>>
  ELSE Append(ToString16(n \div 16), HexDigitChar(n % 16))

\* String.prototype.padStart(2, "0")
\* the digits without padStart(2, "0")
PadStartNone(s) == s

PadStart2(s) == IF Len(s) < 2 THEN <<48>> \o s ELSE s

\* Math.floor(x * 255): the channel truncated instead of rounded
FloorTimes255(x) == (x * 255) \div Scale

toHexTruncating(x) == ToUpperCase(PadStart2(ToString16(FloorTimes255(x))))

toHex(x) == ToUpperCase(PadStart2(ToString16(RoundTimes255(x))))

toHexColor(color) == toHex(color.red) \o toHex(color.green) \o toHex(color.blue)

----------------------------------------------------------------------------
(* Idle values of each group of variables *)

NoColor == [red |-> 0, green |-> 0, blue |-> 0, alpha |-> 0]

CodecIdle ==
  /\ hexIn = <<>> /\ decoded = NoColor /\ encoded = <<>> /\ codecPc = "idle"

ClassIdle ==
  /\ text = <<>> /\ verdict = [flagI |-> FALSE, noFlag |-> FALSE] /\ classPc = "idle"

----------------------------------------------------------------------------
(* Codec run: a validated hex text is decoded, the colour encoded again *)

HexCodes == (48..57) \cup (65..70) \cup (97..102)

AllPairs == {<<a, b>> : a \in HexCodes, b \in HexCodes}

\* "00" and "fF"
FewPairs == {<<48, 48>>, <<102, 70>>}

\* every byte value in every letter case in each channel position
HexInputs ==
  {p \o q \o r : p \in AllPairs, q \in FewPairs, r \in FewPairs} \cup
  {p \o q \o r : p \in FewPairs, q \in AllPairs, r \in FewPairs} \cup
  {p \o q \o r : p \in FewPairs, q \in FewPairs, r \in AllPairs}

InitCodec ==
  /\ hexIn \in HexInputs
  /\ decoded = NoColor /\ encoded = <<>> /\ codecPc = "input"

\* const color = parseHexColor(text)
ParseStep ==
  /\ codecPc = "input"
  /\ decoded' = parseHexColor(hexIn)
  /\ codecPc' = "decoded"
  /\ UNCHANGED <<hexIn, encoded>>

\* const hexLabel = toHexColor(color)
EncodeStep ==
  /\ codecPc = "decoded"
  /\ encoded' = toHexColor(decoded)
  /\ codecPc' = "encoded"
  /\ UNCHANGED <<hexIn, decoded>>

----------------------------------------------------------------------------
(* Classifier run: a line text is trimmed and tested by both regex copies *)

\* "F", "a", "#", " "
Alphabet == {70, 97, 35, 32}

RECURSIVE StringsOfLen(_)
StringsOfLen(n) ==
  IF n = 0 THEN {<<>>}
  ELSE {Append(s, c) : s \in StringsOfLen(n - 1), c \in Alphabet}

\* texts around the borders of the three ranges of the class, and a tab
BorderTexts ==
  { <<48, 49, 50, 51, 52, 53>>,          \* 012345
    <<54, 55, 56, 57, 65, 66>>,          \* 6789AB
    <<67, 68, 69, 70, 97, 98>>,          \* CDEFab
    <<99, 100, 101, 102, 48, 57>>,       \* cdef09
    <<47, 48, 48, 48, 48, 48>>,          \* /00000
    <<48, 48, 48, 48, 48, 58>>,          \* 00000:
    <<48, 64, 48, 48, 48, 48>>,          \* 0@0000
    <<48, 48, 48, 48, 48, 71>>,          \* 00000G
    <<48, 48, 96, 48, 48, 48>>,          \* 00`000
    <<48, 48, 48, 48, 48, 103>>,         \* 00000g
    <<122, 122, 48, 48, 97, 97>>,        \* zz00aa
    <<9, 48, 57, 97, 102, 65, 70, 9>> }  \* <tab>09afAF<tab>

Texts == UNION {StringsOfLen(n) : n \in 0..MaxLen} \cup BorderTexts

InitClass ==
  /\ text \in Texts
  /\ verdict = [flagI |-> FALSE, noFlag |-> FALSE] /\ classPc = "input"

\* const text = line.text.trim(); hexRegex.test(text)
Classify ==
  /\ classPc = "input"
  /\ verdict' = [flagI  |-> hexRegexTest(Trim(text)),
                 noFlag |-> hexRegexTestNoFlag(Trim(text))]
  /\ classPc' = "done"
  /\ UNCHANGED text

----------------------------------------------------------------------------
(* Documents *)

LineUpper  == <<70, 70, 48, 48, 65, 65>>                 \* FF00AA
LinePadded == <<32, 9, 48, 97, 57, 70, 98, 51, 32>>      \* <sp><tab>0a9Fb3<sp>
LineEmpty  == <<>>
LineBlank  == <<32, 32>>                                 \* <sp><sp>
LineNonHex == <<122, 122, 48, 48, 97, 97>>               \* zz00aa

PoolLines == {LineUpper, LinePadded, LineEmpty, LineBlank, LineNonHex}

RECURSIVE Tails(_)
Tails(n) ==
  IF n = 0 THEN {<<>>}
  ELSE Tails(n - 1) \cup {Append(t, l) : t \in Tails(n - 1), l \in PoolLines}

\* the padding: colour lines, every second one with whitespace around it
PadLines == [i \in 1..PadLen |-> IF i % 2 = 1 THEN LineUpper ELSE LinePadded]

\* a text document has at least one line
Docs == {pad \o t : pad \in {<<>>, PadLines}, t \in Tails(MaxLines)} \ {<<>>}

LanguageIds == {"pyxpal", "plaintext"}

\* document.lineCount, document.lineAt(i).text for a 0-based i
LineCount(d) == Len(d)
LineAt(d, i) == d[i + 1]

Range(sl, sc, el, ec) ==
  [startLine |-> sl, startChar |-> sc, endLine |-> el, endChar |-> ec]

\* line.range: the whole line without its line break
LineRange(d, i) == Range(i, 0, i, Len(LineAt(d, i)))

----------------------------------------------------------------------------
(* updateDiagnostics *)

\* for (let i = lineCount - 1; i >= 0; i--) if (trim().length > 0) { ...; break }
RECURSIVE LastNonEmptyLineFrom(_, _)
LastNonEmptyLineFrom(d, i) ==
  IF i < 0 THEN -1
  ELSE IF Len(Trim(LineAt(d, i))) > 0 THEN i
  ELSE LastNonEmptyLineFrom(d, i - 1)

LastNonEmptyLine(d) == LastNonEmptyLineFrom(d, LineCount(d) - 1)

Diagnostic(d, lineIndex) ==
  [range    |-> Range(lineIndex, 0, lineIndex, LineRange(d, lineIndex).endChar),
   message  |-> "invalid_hex_code",
   severity |-> "Warning"]

\* for (let lineIndex = 0; lineIndex <= lastNonEmptyLine; lineIndex++)
RECURSIVE DiagnosticsLoop(_, _, _, _)
DiagnosticsLoop(d, lineIndex, lastNonEmptyLine, diagnostics) ==
  IF lineIndex > lastNonEmptyLine THEN diagnostics
  ELSE DiagnosticsLoop(d, lineIndex + 1, lastNonEmptyLine,
         IF ~hexRegexTest(Trim(LineAt(d, lineIndex)))
         THEN Append(diagnostics, Diagnostic(d, lineIndex))
         ELSE diagnostics)

\* the loop run over every line of the document instead of the used range
ComputeDiagnosticsAllLines(d) == DiagnosticsLoop(d, 0, LineCount(d) - 1, <<>>)

ComputeDiagnostics(d) == DiagnosticsLoop(d, 0, LastNonEmptyLine(d), <<>>)

\* the collection holds at most the entry of the one document: {} is no entry,
\* {ds} the entry ds.  diagnosticCollection.set replaces the entry.
updateDiagnosticsAppending(coll, d, lang) ==
  IF lang = "pyxpal"
  THEN {(IF coll = {} THEN <<>> ELSE CHOOSE ds \in coll : TRUE) \o ComputeDiagnostics(d)}
  ELSE coll

\* the handler without the languageId check of extension.js:154
updateDiagnosticsAnyLanguage(coll, d, lang) == {ComputeDiagnostics(d)}

updateDiagnostics(coll, d, lang) ==
  IF lang = "pyxpal" THEN {ComputeDiagnostics(d)} ELSE coll

----------------------------------------------------------------------------
(* colorProvider *)

ColorInformation(range, color) == [range |-> range, color |-> color]

\* the binding made for line i when it is a colour line
LineColor(d, i) ==
  ColorInformation(
    Range(i, FirstNonWhitespaceCharacterIndex(LineAt(d, i)),
          i, FirstNonWhitespaceCharacterIndex(LineAt(d, i)) + Len(Trim(LineAt(d, i)))),
    parseHexColor(Trim(LineAt(d, i))))

\* for (let i = 0; i < lineCount; i++) { if (cancelled) return []; ... }
RECURSIVE ColorsLoop(_, _, _, _)
ColorsLoop(d, i, cancelled, acc) ==
  IF i >= LineCount(d) THEN acc
  ELSE IF cancelled THEN <<>>
  ELSE ColorsLoop(d, i + 1, cancelled,
         IF hexRegexTest(Trim(LineAt(d, i))) THEN Append(acc, LineColor(d, i)) ELSE acc)

provideDocumentColors(d, cancelled) == ColorsLoop(d, 0, cancelled, <<>>)

TextEdit(range, newText) == [range |-> range, newText |-> newText]

\* the edit made over the whole line of the range instead of the range
provideColorPresentationsWholeLine(color, range) ==
  <<[label    |-> toHexColor(color),
     textEdit |-> TextEdit(Range(range.startLine, 0, range.endLine, range.endChar),
                           toHexColor(color))]>>

provideColorPresentations(color, range) ==
  <<[label    |-> toHexColor(color),
     textEdit |-> TextEdit(range, toHexColor(color))]>>

----------------------------------------------------------------------------
(* Labels: the static table and the constants of the sibling Python file *)

lineLabels ==
  << "pyxel.COLOR_BLACK", "pyxel.COLOR_NAVY", "pyxel.COLOR_PURPLE",
     "pyxel.COLOR_GREEN", "pyxel.COLOR_BROWN", "pyxel.COLOR_DARK_BLUE",
     "pyxel.COLOR_LIGHT_BLUE", "pyxel.COLOR_WHITE", "pyxel.COLOR_RED",
     "pyxel.COLOR_ORANGE", "pyxel.COLOR_YELLOW", "pyxel.COLOR_LIME",
     "pyxel.COLOR_CYAN", "pyxel.COLOR_GRAY", "pyxel.COLOR_PINK",
     "pyxel.COLOR_PEACH" >>

\* undefined, the value of a missing array element or map entry; like the
\* empty string it is falsy
Undefined == ""

\* lineLabels[i] for a 0-based i
LineLabel(i) == IF i < Len(lineLabels) THEN lineLabels[i + 1] ELSE Undefined

DecimalDigits == <<"0", "1", "2", "3", "4", "5", "6", "7", "8", "9">>

\* Number.prototype.toString() of a non-negative integer
RECURSIVE ToStringDecimal(_)
ToStringDecimal(n) ==
  IF n < 10 THEN DecimalDigits[n + 1]
  ELSE ToStringDecimal(n \div 10) \o DecimalDigits[(n % 10) + 1]

\* path.basename(pyxpalFilePath, ".pyxpal") of the one document
PyxpalBasename == "my_palette"

\* A line of the Python file: a declaration that the regex
\* /^COLOR_([A-Z_]+):\s*int\s*=\s*(\d+)$/gm matches, with its two groups, or
\* any other line.
ConstLine(name, value) == [isConst |-> TRUE, name |-> name, value |-> value]
OtherLine == [isConst |-> FALSE, name |-> "", value |-> 0]

\* The Python file as readFile finds it: missing or unreadable, or its lines
PyAbsent      == [readable |-> FALSE, lines |-> <<>>]
PyUnparseable == [readable |-> TRUE, lines |-> <<OtherLine, OtherLine>>]
PyPartial     == [readable |-> TRUE, lines |-> <<ConstLine("RED", 8), OtherLine>>]
PyShifted     == [readable |-> TRUE,
                  lines |-> <<ConstLine("FIRST", 0), ConstLine("LAST", 16),
                              OtherLine, ConstLine("AGAIN", 0)>>]

PyFiles == {PyAbsent, PyUnparseable, PyPartial, PyShifted}

\* while ((match = regex.exec(fileContent)) !== null) constants.set(value, name)
RECURSIVE ConstantsLoop(_, _, _)
ConstantsLoop(lines, k, constants) ==
  IF k > Len(lines) THEN constants
  ELSE ConstantsLoop(lines, k + 1,
         IF lines[k].isConst
         THEN [v \in DOMAIN constants \cup {lines[k].value} |->
                 IF v = lines[k].value
                 THEN PyxpalBasename \o ".COLOR_" \o lines[k].name
                 ELSE constants[v]]
         ELSE constants)

EmptyMap == [v \in {} |-> ""]

\* the Map of value -> qualified name; empty when readFile throws
getPythonConstants(py) ==
  IF py.readable THEN ConstantsLoop(py.lines, 1, EmptyMap) ELSE EmptyMap

MapSize(m) == Cardinality(DOMAIN m)
MapGet(m, k) == IF k \in DOMAIN m THEN m[k] ELSE Undefined

----------------------------------------------------------------------------
(* PyxpalCodeLensProvider *)

NoCommand == [title |-> "", command |-> "", arguments |-> <<>>, tooltip |-> ""]

CodeLens(range, command) == [range |-> range, command |-> command]

\* pythonConstants.size > 0 ? pythonConstants.get(i) : lineLabels[i]
SelectLabel(pythonConstants, i) ==
  IF MapSize(pythonConstants) > 0 THEN MapGet(pythonConstants, i) ELSE LineLabel(i)

NumLens(d, i) ==
  CodeLens(LineRange(d, i),
    [title     |-> "$(symbol-numeric) " \o ToStringDecimal(i),
     command   |-> "pyxpal.copyLabel",
     arguments |-> <<ToStringDecimal(i)>>,
     tooltip   |-> "Copy index " \o ToStringDecimal(i)])

LabelLens(d, i, label) ==
  CodeLens(LineRange(d, i),
    [title     |-> "$(symbol-enum-member) " \o label,
     command   |-> "pyxpal.copyLabel",
     arguments |-> <<label>>,
     tooltip   |-> "Copy \"" \o label \o "\""])

\* the lenses pushed when the regex is tested on the untrimmed text
LineLensesUntrimmed(d, i, pythonConstants) ==
  IF ~hexRegexTest(LineAt(d, i)) THEN <<>>
  ELSE <<NumLens(d, i)>> \o
       (IF SelectLabel(pythonConstants, i) # Undefined
        THEN <<LabelLens(d, i, SelectLabel(pythonConstants, i))>>
        ELSE <<>>)

\* the lenses pushed for line i: none unless it is a colour line, the number
\* lens always, the label lens if (label)
LineLenses(d, i, pythonConstants) ==
  IF ~hexRegexTest(Trim(LineAt(d, i))) THEN <<>>
  ELSE <<NumLens(d, i)>> \o
       (IF SelectLabel(pythonConstants, i) # Undefined
        THEN <<LabelLens(d, i, SelectLabel(pythonConstants, i))>>
        ELSE <<>>)

\* part_000:122-158, the loop after the await
RECURSIVE LensLoop(_, _, _, _, _)
LensLoop(d, i, pythonConstants, cancelled, codeLenses) ==
  IF i >= LineCount(d) THEN codeLenses
  ELSE IF cancelled THEN <<>>
  ELSE LensLoop(d, i + 1, pythonConstants, cancelled,
                codeLenses \o LineLenses(d, i, pythonConstants))

\* the loop without the cancellation check
provideCodeLensesAfterReadNoCheck(d, py, cancelled) ==
  LensLoop(d, 0, getPythonConstants(py), FALSE, <<>>)

\* what the asynchronous provideCodeLenses returns once the read has settled
provideCodeLensesAfterRead(d, py, cancelled) ==
  LensLoop(d, 0, getPythonConstants(py), cancelled, <<>>)

\* extension.js:58-73: a lens without a command per colour line
RECURSIVE SyncLensLoop(_, _, _, _)
SyncLensLoop(d, i, cancelled, codeLenses) ==
  IF i >= LineCount(d) THEN codeLenses
  ELSE IF cancelled THEN <<>>
  ELSE SyncLensLoop(d, i + 1, cancelled,
         IF hexRegexTest(Trim(LineAt(d, i)))
         THEN Append(codeLenses, CodeLens(LineRange(d, i), NoCommand))
         ELSE codeLenses)

provideCodeLensesSync(d, cancelled) == SyncLensLoop(d, 0, cancelled, <<>>)

\* null, what resolveCodeLens returns when cancelled
Null == CodeLens(Range(-1, -1, -1, -1), NoCommand)

\* extension.js:75-90
resolveCodeLens(codeLens, cancelled) ==
  IF cancelled THEN Null
  ELSE IF LineLabel(codeLens.range.startLine) # Undefined
  THEN CodeLens(codeLens.range,
         [title     |-> "$(clippy) " \o ToStringDecimal(codeLens.range.startLine)
                          \o ": " \o LineLabel(codeLens.range.startLine),
          command   |-> "pyxpal.copyLabel",
          arguments |-> <<LineLabel(codeLens.range.startLine)>>,
          tooltip   |-> "Copy \"" \o LineLabel(codeLens.range.startLine)
                          \o "\" to clipboard"])
  ELSE codeLens

----------------------------------------------------------------------------
(* The document and its events *)

DocIdle ==
  /\ doc = <<LineEmpty>> /\ languageId = "pyxpal"
  /\ lastEvent = "activate" /\ diagnosticCollection = {}

NoRequest == [color |-> NoColor, range |-> Range(-1, -1, -1, -1)]

ColorIdle ==
  /\ colors = <<>> /\ colorsPc = "idle" /\ colorToken = FALSE
  /\ pickRequest = NoRequest /\ presentations = <<>>

LensIdle ==
  /\ lenses = <<>> /\ lensPc = "idle" /\ lensToken = FALSE /\ lensVariant = "none"
  /\ pyFile = PyAbsent /\ resolved = Null

CopyIdle ==
  /\ clipboard = "" /\ notifications = <<>> /\ copyPc = "idle"
  /\ copyArg = "" /\ copyVariant = "none" /\ writeOk = FALSE

\* no decoration feature in the build: nothing is ever created or armed
DecoIdle ==
  /\ activated = TRUE /\ activeEditor = "none"
  /\ timeout = 0 /\ pendingTimers = {} /\ burstLength = 0 /\ runsSinceTrigger = 0
  /\ labelDecorationCache = <<>> /\ decorationInstances = <<>>
  /\ liveHandles = {} /\ editorDecorations = {}

\* activate: the document is open; when its editor is the active one
\* updateDiagnostics has run on it (extension.js:192-194)
InitDoc ==
  /\ doc \in Docs
  /\ languageId \in LanguageIds
  /\ lastEvent = "activate"
  /\ \E active \in BOOLEAN :
       diagnosticCollection =
         IF active THEN updateDiagnostics({}, doc, languageId) ELSE {}

IsOpen == lastEvent # "close"

\* lines of the padding the document starts with
PadOf(d) == IF Len(d) > MaxLines THEN PadLen ELSE 0

\* the texts one edit makes of d: a line after the padding replaced, a line
\* added at the end, the last line removed, the padding pasted or cut
Edits(d) ==
  ( {[d EXCEPT ![k] = l] : k \in (PadOf(d) + 1)..Len(d), l \in PoolLines}
    \cup {Append(d, l) : l \in {x \in PoolLines : Len(d) - PadOf(d) < MaxLines}}
    \cup {SubSeq(d, 1, Len(d) - 1) : x \in {y \in {0} : Len(d) - PadOf(d) > 0}}
    \cup {IF PadOf(d) = 0 THEN PadLines \o d ELSE SubSeq(d, PadLen + 1, Len(d))} )
  \ {<<>>, d}

\* the host drops the annotations made from the earlier text; a read in
\* flight stays in flight
StaleColors ==
  /\ colors' = <<>> /\ colorsPc' = "idle" /\ colorToken' = FALSE
  /\ pickRequest' = NoRequest /\ presentations' = <<>>

StaleLenses ==
  IF lensPc = "reading" THEN UNCHANGED lensVars
  ELSE /\ lenses' = <<>> /\ lensPc' = "idle" /\ lensToken' = FALSE
       /\ lensVariant' = "none" /\ pyFile' = PyAbsent /\ resolved' = Null

\* onDidOpenTextDocument((doc) => updateDiagnostics(doc))
OpenEvent ==
  /\ ~IsOpen
  /\ \E d \in {doc} \cup Edits(doc) :
       /\ doc' = d
       /\ diagnosticCollection' = updateDiagnostics(diagnosticCollection, d, languageId)
  /\ lastEvent' = "open"
  /\ StaleColors /\ StaleLenses
  /\ UNCHANGED <<languageId, codecVars, classVars, copyVars, decoVars>>

\* onDidChangeTextDocument((event) => updateDiagnostics(event.document))
ChangeEvent ==
  /\ IsOpen
  /\ \E d \in Edits(doc) :
       /\ doc' = d
       /\ diagnosticCollection' = updateDiagnostics(diagnosticCollection, d, languageId)
  /\ lastEvent' = "change"
  /\ StaleColors /\ StaleLenses
  /\ UNCHANGED <<languageId, codecVars, classVars, copyVars, decoVars>>

\* onDidCloseTextDocument((doc) => diagnosticCollection.delete(doc.uri))
CloseEvent ==
  /\ IsOpen
  /\ diagnosticCollection' = {}
  /\ lastEvent' = "close"
  /\ StaleColors /\ StaleLenses
  /\ UNCHANGED <<doc, languageId, codecVars, classVars, copyVars, decoVars>>

\* the providers are registered for { language: "pyxpal" }
Provided == IsOpen /\ languageId = "pyxpal"

----------------------------------------------------------------------------
(* Provider calls; cancelled is the state of the call's token when it runs *)

ProvideDocumentColors ==
  /\ Provided
  /\ \E cancelled \in BOOLEAN :
       /\ colors' = provideDocumentColors(doc, cancelled)
       /\ colorToken' = cancelled
  /\ colorsPc' = "done"
  /\ pickRequest' = NoRequest /\ presentations' = <<>>
  /\ UNCHANGED <<docVars, lensVars, codecVars, classVars, copyVars, decoVars>>

\* part_000:114-120: the call runs up to the await of getPythonConstants
ProvideCodeLensesStart ==
  /\ Provided
  /\ lensPc # "reading"
  /\ lensPc' = "reading" /\ lensVariant' = "async" /\ lensToken' = FALSE
  /\ lenses' = <<>> /\ pyFile' = PyAbsent /\ resolved' = Null
  /\ UNCHANGED <<docVars, colorVars, codecVars, classVars, copyVars, decoVars>>

\* the host cancels the call while the read is pending
CancelCodeLenses ==
  /\ lensPc = "reading" /\ ~lensToken
  /\ lensToken' = TRUE
  /\ UNCHANGED <<lenses, lensPc, lensVariant, pyFile, resolved>>
  /\ UNCHANGED <<docVars, colorVars, codecVars, classVars, copyVars, decoVars>>

\* part_000:120-158: the read settles and the loop runs on the text of now
ProvideCodeLensesFinish ==
  /\ lensPc = "reading"
  /\ \E py \in PyFiles :
       /\ pyFile' = py
       /\ lenses' = provideCodeLensesAfterRead(doc, py, lensToken)
  /\ lensPc' = "done"
  /\ UNCHANGED <<lensToken, lensVariant, resolved>>
  /\ UNCHANGED <<docVars, colorVars, codecVars, classVars, copyVars, decoVars>>

\* extension.js:58-73
ProvideCodeLensesSync ==
  /\ Provided
  /\ lensPc # "reading"
  /\ \E cancelled \in BOOLEAN :
       /\ lenses' = provideCodeLensesSync(doc, cancelled)
       /\ lensToken' = cancelled
  /\ lensPc' = "done" /\ lensVariant' = "sync"
  /\ pyFile' = PyAbsent /\ resolved' = Null
  /\ UNCHANGED <<docVars, colorVars, codecVars, classVars, copyVars, decoVars>>

\* extension.js:75-90: the host resolves one of the lenses it was given
ResolveCodeLens ==
  /\ Provided
  /\ lensPc = "done" /\ lensVariant = "sync"
  /\ \E k \in 1..Len(lenses), cancelled \in BOOLEAN :
       resolved' = resolveCodeLens(lenses[k], cancelled)
  /\ UNCHANGED <<lenses, lensPc, lensToken, lensVariant, pyFile>>
  /\ UNCHANGED <<docVars, colorVars, codecVars, classVars, copyVars, decoVars>>

Init == InitDoc /\ ColorIdle /\ LensIdle /\ CopyIdle /\ CodecIdle /\ ClassIdle /\ DecoIdle

Next ==
  \/ OpenEvent
  \/ ChangeEvent
  \/ CloseEvent
  \/ ProvideDocumentColors
  \/ ProvideCodeLensesStart
  \/ CancelCodeLenses
  \/ ProvideCodeLensesFinish

Spec == Init /\ [][Next]_vars

----------------------------------------------------------------------------
(* The codec run and the classifier run as specifications *)

InitCodecRun == InitCodec /\ ClassIdle /\ DocIdle /\ ColorIdle /\ LensIdle /\ CopyIdle /\ DecoIdle

NextCodec ==
  \/ ParseStep /\ UNCHANGED <<classVars, docVars, colorVars, lensVars, copyVars, decoVars>>
  \/ EncodeStep /\ UNCHANGED <<classVars, docVars, colorVars, lensVars, copyVars, decoVars>>

SpecCodec == InitCodecRun /\ [][NextCodec]_vars

InitClassRun == InitClass /\ CodecIdle /\ DocIdle /\ ColorIdle /\ LensIdle /\ CopyIdle /\ DecoIdle

NextClass == Classify /\ UNCHANGED <<codecVars, docVars, colorVars, lensVars, copyVars, decoVars>>

SpecClassify == InitClassRun /\ [][NextClass]_vars

----------------------------------------------------------------------------
(* The lens providers of both variants on a document at rest *)

InitAtRest ==
  /\ doc \in Docs
  /\ languageId = "pyxpal"
  /\ lastEvent = "activate"
  /\ diagnosticCollection = updateDiagnostics({}, doc, languageId)

InitLens == InitAtRest /\ ColorIdle /\ LensIdle /\ CopyIdle /\ CodecIdle /\ ClassIdle /\ DecoIdle

NextLens ==
  \/ ProvideCodeLensesSync
  \/ ResolveCodeLens
  \/ ProvideCodeLensesStart
  \/ CancelCodeLenses
  \/ ProvideCodeLensesFinish

SpecLens == InitLens /\ [][NextLens]_vars

----------------------------------------------------------------------------
(* The colour picker on a document at rest *)

\* colours the user may choose in the picker
PickedColors ==
  { [red |-> 0, green |-> 0, blue |-> 0, alpha |-> Scale],
    [red |-> Scale, green |-> Scale, blue |-> Scale, alpha |-> Scale],
    [red |-> Scale \div 3, green |-> Scale \div 2, blue |-> (2 * Scale) \div 3,
     alpha |-> Scale],
    parseHexColor(Trim(LinePadded)) }

\* the host asks for the presentations of a colour chosen for one of the
\* bindings it was given; context.range is the range of that binding
ProvideColorPresentations ==
  /\ Provided
  /\ colorsPc = "done"
  /\ \E k \in 1..Len(colors), color \in PickedColors :
       /\ pickRequest' = [color |-> color, range |-> colors[k].range]
       /\ presentations' = provideColorPresentations(color, colors[k].range)
  /\ UNCHANGED <<colors, colorsPc, colorToken>>
  /\ UNCHANGED <<docVars, lensVars, codecVars, classVars, copyVars, decoVars>>

InitPicker == InitAtRest /\ ColorIdle /\ LensIdle /\ CopyIdle /\ CodecIdle /\ ClassIdle /\ DecoIdle

NextPicker ==
  \/ ProvideDocumentColors
  \/ ProvideColorPresentations

SpecPicker == InitPicker /\ [][NextPicker]_vars

----------------------------------------------------------------------------
(* The picker's edit: the host applies the TextEdit of the presentation the
   user accepts, and the change handler runs on the edited text *)

\* the text of a line with the characters from startChar to endChar replaced
ReplaceSpan(line, startChar, endChar, newText) ==
  SubSeq(line, 1, startChar) \o newText \o SubSeq(line, endChar + 1, Len(line))

\* the edit put in place of the whole line of its range
ApplyTextEditWholeLine(d, edit) ==
  [d EXCEPT ![edit.range.startLine + 1] = edit.newText]

\* new vscode.TextEdit(context.range, hexLabel), applied to the document
ApplyTextEdit(d, edit) ==
  [d EXCEPT ![edit.range.startLine + 1] =
     ReplaceSpan(d[edit.range.startLine + 1], edit.range.startChar,
                 edit.range.endChar, edit.newText)]

\* the user accepts the presentation; onDidChangeTextDocument follows
AcceptPresentation ==
  /\ Provided
  /\ presentations # <<>>
  /\ \E k \in 1..Len(presentations) :
       /\ doc' = ApplyTextEdit(doc, presentations[k].textEdit)
       /\ diagnosticCollection' =
            updateDiagnostics(diagnosticCollection,
                              ApplyTextEdit(doc, presentations[k].textEdit), languageId)
  /\ lastEvent' = "change"
  /\ StaleColors /\ StaleLenses
  /\ UNCHANGED <<languageId, codecVars, classVars, copyVars, decoVars>>

\* documents without the padding
ShortDocs == {d \in Docs : Len(d) <= MaxLines}

InitEdit ==
  /\ doc \in ShortDocs
  /\ languageId = "pyxpal"
  /\ lastEvent = "activate"
  /\ diagnosticCollection = updateDiagnostics({}, doc, languageId)
  /\ ColorIdle /\ LensIdle /\ CopyIdle /\ CodecIdle /\ ClassIdle /\ DecoIdle

NextEdit ==
  \/ ProvideDocumentColors
  \/ ProvideColorPresentations
  \/ AcceptPresentation

SpecEdit == InitEdit /\ [][NextEdit]_vars

----------------------------------------------------------------------------
(* pyxpal.copyLabel *)

Notification(kind, key, arg) == [kind |-> kind, key |-> key, arg |-> arg]

\* the arguments the commands of the lenses carry
CopyTexts ==
  {lineLabels[i] : i \in 1..Len(lineLabels)}
    \cup {ToStringDecimal(i) : i \in 0..(PadLen + MaxLines - 1)}
    \cup {PyxpalBasename \o ".COLOR_RED"}

\* messages of the errors a clipboard write is rejected with
WriteErrors == {"denied"}

\* extension.js:97-100: writeText is called and not awaited; the
\* confirmation is shown at once
CopyCommandSync ==
  /\ copyPc # "writing"
  /\ \E textToCopy \in CopyTexts :
       /\ copyArg' = textToCopy
       /\ notifications' = <<Notification("info", "Copied", textToCopy)>>
  /\ copyPc' = "writing" /\ copyVariant' = "sync"
  /\ UNCHANGED <<clipboard, writeOk>>
  /\ UNCHANGED <<docVars, colorVars, lensVars, codecVars, classVars, decoVars>>

\* part_000:171-175: the command runs up to await writeText
CopyCommandAsync ==
  /\ copyPc # "writing"
  /\ \E textToCopy \in CopyTexts :
       copyArg' = textToCopy
  /\ notifications' = <<>>
  /\ copyPc' = "writing" /\ copyVariant' = "async"
  /\ UNCHANGED <<clipboard, writeOk>>
  /\ UNCHANGED <<docVars, colorVars, lensVars, codecVars, classVars, decoVars>>

\* the write is fulfilled: nothing of extension.js waits for it; part_000:176-178
WriteFulfilled ==
  /\ copyPc = "writing"
  /\ clipboard' = copyArg
  /\ writeOk' = TRUE
  /\ notifications' =
       IF copyVariant = "async"
       THEN Append(notifications, Notification("info", "Copied", copyArg))
       ELSE notifications
  /\ copyPc' = "done"
  /\ UNCHANGED <<copyArg, copyVariant>>
  /\ UNCHANGED <<docVars, colorVars, lensVars, codecVars, classVars, decoVars>>

\* the write is rejected: nothing of extension.js catches it; part_000:179-184
WriteRejected ==
  /\ copyPc = "writing"
  /\ writeOk' = FALSE
  /\ \E message \in WriteErrors :
       notifications' =
         IF copyVariant = "async"
         THEN Append(notifications, Notification("error", "CopyFailed", message))
         ELSE notifications
  /\ copyPc' = "done"
  /\ UNCHANGED <<clipboard, copyArg, copyVariant>>
  /\ UNCHANGED <<docVars, colorVars, lensVars, codecVars, classVars, decoVars>>

InitCopy == DocIdle /\ ColorIdle /\ LensIdle /\ CopyIdle /\ CodecIdle /\ ClassIdle /\ DecoIdle

NextCopy ==
  \/ CopyCommandSync
  \/ CopyCommandAsync
  \/ WriteFulfilled
  \/ WriteRejected

SpecCopy == InitCopy /\ [][NextCopy]_vars

----------------------------------------------------------------------------
(* Decorations: the label variant with its debounce (part_000:565-717) and
   the swatch variant (part_000:305-365) *)

\* window.activeTextEditor: none, the editor of the document, or the editor
\* of another pyxpal document whose text stays as it is
Editors == {"none", "doc", "other"}

OtherDoc == <<LineNonHex, LineUpper>>

EditorDoc(e, d) == IF e = "doc" THEN d ELSE OtherDoc
EditorLang(e, lang) == IF e = "doc" THEN lang ELSE "pyxpal"

\* timers and decoration types are objects: each new one is the first
\* identity not in use
MaxTimers == 3
MaxBurst == 3       \* triggers counted in one burst
MaxHandles == 2 * MaxLines + 3

Least(S) == CHOOSE x \in S : \A y \in S : x <= y

RECURSIVE FreshFrom(_, _)
FreshFrom(free, n) ==
  IF n = 0 THEN <<>> ELSE <<Least(free)>> \o FreshFrom(free \ {Least(free)}, n - 1)

\* the n decoration types createTextEditorDecorationType returns next
FreshHandles(live, n) == FreshFrom((1..MaxHandles) \ live, n)

HandlesLeft(live) == Cardinality((1..MaxHandles) \ live)

\* setTimeout: the timer it returns
FreshTimer(tm, pend) == Least((1..MaxTimers) \ (pend \cup {tm}))

TimerLeft(tm, pend) == (1..MaxTimers) \ (pend \cup {tm}) # {}

\* the trigger without clearTimeout
triggerUpdateDecorationsNoClear(tm, pend) ==
  [timeout |-> FreshTimer(tm, pend),
   pendingTimers |-> pend \cup {FreshTimer(tm, pend)}]

\* part_000:679-685; 0 stands for undefined
triggerUpdateDecorations(tm, pend) ==
  LET cleared == IF tm # 0 THEN pend \ {tm} ELSE pend
      cleared_tm == IF tm # 0 THEN 0 ELSE tm
  IN [timeout |-> FreshTimer(cleared_tm, cleared),
      pendingTimers |-> cleared \cup {FreshTimer(cleared_tm, cleared)}]

\* labelDecorationsMap.get(label).push(option), the entry made when missing
MapPush(map, label, option) ==
  IF \E k \in 1..Len(map) : map[k].label = label
  THEN [k \in 1..Len(map) |->
          IF map[k].label = label
          THEN [map[k] EXCEPT !.options = Append(@, option)] ELSE map[k]]
  ELSE Append(map, [label |-> label, options |-> <<option>>])

\* part_000:580-607
RECURSIVE LabelDecorationsLoop(_, _, _)
LabelDecorationsLoop(d, i, map) ==
  IF i >= LineCount(d) THEN map
  ELSE IF hexRegexTest(Trim(LineAt(d, i))) /\ LineLabel(i) # Undefined
       THEN LabelDecorationsLoop(d, i + 1, MapPush(map, LineLabel(i), LineRange(d, i)))
       ELSE LabelDecorationsLoop(d, i + 1, map)

LabelDecorationsMap(d) == LabelDecorationsLoop(d, 0, <<>>)

\* the state of the handles: the two registries, the types created and not
\* disposed, the decorations on the editors
DecoState(cache, instances, live, shown) ==
  [cache |-> cache, instances |-> instances, live |-> live, shown |-> shown]

SeqRange(s) == {s[k] : k \in 1..Len(s)}

\* d.dispose() for every d of the set: the types are gone from the editors
Dispose(st, types) ==
  [st EXCEPT !.live = @ \ types,
             !.shown = {x \in @ : x.type \notin types}]

\* part_000:571-626, the label variant
updateDecorations(e, d, lang, st) ==
  IF e = "none" \/ EditorLang(e, lang) # "pyxpal" THEN st
  ELSE LET map == LabelDecorationsMap(EditorDoc(e, d))
           cleared == [Dispose(st, {st.cache[k].type : k \in 1..Len(st.cache)})
                         EXCEPT !.cache = <<>>]
           types == FreshHandles(st.live, Len(map))
       IN [cleared EXCEPT
             !.live = @ \cup SeqRange(types),
             !.shown = @ \cup
                {[type |-> types[k], editor |-> e, contentText |-> map[k].label,
                  ranges |-> map[k].options] : k \in 1..Len(map)},
             !.cache = [k \in 1..Len(map) |->
                          [label |-> map[k].label, type |-> types[k]]]]

\* part_000:314-329: the lines that get a swatch
RECURSIVE SwatchLoop(_, _, _)
SwatchLoop(d, i, acc) ==
  IF i >= LineCount(d) THEN acc
  ELSE IF hexRegexTestNoFlag(Trim(LineAt(d, i)))
       THEN SwatchLoop(d, i + 1,
                       Append(acc, [color |-> <<35>> \o Trim(LineAt(d, i)),
                                    range |-> Range(i, 0, i, 0)]))
       ELSE SwatchLoop(d, i + 1, acc)

\* part_000:308-342, the swatch variant: the type of line 312 comes first
updateDecorationsSwatch(e, d, lang, st) ==
  IF e = "none" \/ EditorLang(e, lang) # "pyxpal" THEN st
  ELSE LET decorations == SwatchLoop(EditorDoc(e, d), 0, <<>>)
           fresh == FreshHandles(st.live, Len(decorations) + 1)
           types == SubSeq(fresh, 2, Len(fresh))
           created == [st EXCEPT !.live = @ \cup SeqRange(fresh)]
           cleared == Dispose(created, SeqRange(st.instances))
       IN [cleared EXCEPT
             !.shown = @ \cup
                {[type |-> types[k], editor |-> e,
                  contentText |-> decorations[k].color,
                  ranges |-> <<decorations[k].range>>] : k \in 1..Len(types)},
             !.instances = types]

\* part_000:713-717
deactivate(st) ==
  [Dispose(st, {st.cache[k].type : k \in 1..Len(st.cache)}) EXCEPT !.cache = <<>>]

CurrentDecoState ==
  DecoState(labelDecorationCache, decorationInstances, liveHandles, editorDecorations)

SetDecoState(st) ==
  /\ labelDecorationCache' = st.cache
  /\ decorationInstances' = st.instances
  /\ liveHandles' = st.live
  /\ editorDecorations' = st.shown

SetTimer(t) ==
  /\ timeout' = t.timeout
  /\ pendingTimers' = t.pendingTimers
  /\ runsSinceTrigger' = 0
  /\ burstLength' = IF runsSinceTrigger > 0 \/ burstLength = 0 THEN 1
                    ELSE IF burstLength < MaxBurst THEN burstLength + 1 ELSE MaxBurst

\* edits that keep the document without the padding
ShortEdits(d) == Edits(d) \cap ShortDocs

\* activate, part_000:676-689: nothing is decorated yet, the timer is armed
\* when an editor is active
InitDebounce ==
  /\ doc \in ShortDocs /\ languageId \in LanguageIds
  /\ lastEvent = "activate" /\ diagnosticCollection = {}
  /\ activated = TRUE
  /\ activeEditor \in Editors
  /\ timeout = IF activeEditor # "none"
               THEN triggerUpdateDecorations(0, {}).timeout ELSE 0
  /\ pendingTimers = IF activeEditor # "none"
                     THEN triggerUpdateDecorations(0, {}).pendingTimers ELSE {}
  /\ burstLength = IF activeEditor # "none" THEN 1 ELSE 0
  /\ runsSinceTrigger = 0
  /\ labelDecorationCache = <<>> /\ decorationInstances = <<>>
  /\ liveHandles = {} /\ editorDecorations = {}
  /\ ColorIdle /\ LensIdle /\ CopyIdle /\ CodecIdle /\ ClassIdle

\* part_000:691-700
ActiveEditorChanged ==
  /\ activated
  /\ \E e \in Editors \ {activeEditor} :
       /\ activeEditor' = e
       /\ IF e # "none"
          THEN /\ TimerLeft(timeout, pendingTimers)
               /\ SetTimer(triggerUpdateDecorations(timeout, pendingTimers))
          ELSE UNCHANGED <<timeout, pendingTimers, burstLength, runsSinceTrigger>>
  /\ UNCHANGED <<activated, labelDecorationCache, decorationInstances, liveHandles,
                 editorDecorations>>
  /\ UNCHANGED <<docVars, colorVars, lensVars, codecVars, classVars, copyVars>>

\* part_000:702-710: the text of the document changes
TextChanged ==
  /\ activated
  /\ \E d \in ShortEdits(doc) : doc' = d
  /\ lastEvent' = "change"
  /\ IF activeEditor = "doc"
     THEN /\ TimerLeft(timeout, pendingTimers)
          /\ SetTimer(triggerUpdateDecorations(timeout, pendingTimers))
     ELSE UNCHANGED <<timeout, pendingTimers, burstLength, runsSinceTrigger>>
  /\ UNCHANGED <<activated, activeEditor, labelDecorationCache, decorationInstances,
                 liveHandles, editorDecorations>>
  /\ UNCHANGED <<languageId, diagnosticCollection>>
  /\ UNCHANGED <<colorVars, lensVars, codecVars, classVars, copyVars>>

\* part_000:684: the timer fires, () => updateDecorations(activeEditor)
TimerFires ==
  /\ \E id \in pendingTimers : pendingTimers' = pendingTimers \ {id}
  /\ runsSinceTrigger' = runsSinceTrigger + 1
  /\ SetDecoState(updateDecorations(activeEditor, doc, languageId, CurrentDecoState))
  /\ UNCHANGED <<activated, activeEditor, timeout, burstLength>>
  /\ UNCHANGED <<docVars, colorVars, lensVars, codecVars, classVars, copyVars>>

\* part_000:713-717; the subscriptions of the events are disposed with it
Deactivate ==
  /\ activated
  /\ activated' = FALSE
  /\ SetDecoState(deactivate(CurrentDecoState))
  /\ UNCHANGED <<activeEditor, timeout, pendingTimers, burstLength, runsSinceTrigger>>
  /\ UNCHANGED <<docVars, colorVars, lensVars, codecVars, classVars, copyVars>>

NextDebounce ==
  \/ ActiveEditorChanged
  \/ TextChanged
  \/ TimerFires
  \/ Deactivate

SpecDebounce == InitDebounce /\ [][NextDebounce]_vars

----------------------------------------------------------------------------
(* The swatch variant: no timer, the handlers call updateDecorations *)

\* a run creates a type for each colour line and the type of line 312
SwatchRunFits(e, d, lang) ==
  \/ e = "none" \/ EditorLang(e, lang) # "pyxpal"
  \/ HandlesLeft(liveHandles) >= Len(SwatchLoop(EditorDoc(e, d), 0, <<>>)) + 1

\* activate, part_000:362: updateDecorations(vscode.window.activeTextEditor)
InitSwatch ==
  /\ doc \in ShortDocs /\ languageId \in LanguageIds
  /\ lastEvent = "activate" /\ diagnosticCollection = {}
  /\ activated = TRUE
  /\ activeEditor \in Editors
  /\ timeout = 0 /\ pendingTimers = {} /\ burstLength = 0 /\ runsSinceTrigger = 0
  /\ labelDecorationCache = <<>>
  /\ LET st == updateDecorationsSwatch(activeEditor, doc, languageId,
                                       DecoState(<<>>, <<>>, {}, {}))
     IN /\ decorationInstances = st.instances
        /\ liveHandles = st.live
        /\ editorDecorations = st.shown
  /\ ColorIdle /\ LensIdle /\ CopyIdle /\ CodecIdle /\ ClassIdle

\* part_000:344-348: onDidChangeActiveTextEditor(updateDecorations)
SwatchEditorChanged ==
  /\ activated
  /\ \E e \in Editors \ {activeEditor} :
       /\ activeEditor' = e
       /\ SwatchRunFits(e, doc, languageId)
       /\ SetDecoState(updateDecorationsSwatch(e, doc, languageId, CurrentDecoState))
  /\ UNCHANGED <<activated, timeout, pendingTimers, burstLength, runsSinceTrigger>>
  /\ UNCHANGED <<docVars, colorVars, lensVars, codecVars, classVars, copyVars>>

\* part_000:349-360
SwatchTextChanged ==
  /\ activated
  /\ \E d \in ShortEdits(doc) :
       /\ doc' = d
       /\ IF activeEditor = "doc"
          THEN /\ SwatchRunFits(activeEditor, d, languageId)
               /\ SetDecoState(updateDecorationsSwatch(activeEditor, d, languageId,
                                                       CurrentDecoState))
          ELSE UNCHANGED <<labelDecorationCache, decorationInstances, liveHandles,
                           editorDecorations>>
  /\ lastEvent' = "change"
  /\ UNCHANGED <<activated, activeEditor, timeout, pendingTimers, burstLength,
                 runsSinceTrigger>>
  /\ UNCHANGED <<languageId, diagnosticCollection>>
  /\ UNCHANGED <<colorVars, lensVars, codecVars, classVars, copyVars>>

\* part_000:365: function deactivate() {}
SwatchDeactivate ==
  /\ activated
  /\ activated' = FALSE
  /\ UNCHANGED <<activeEditor, timeout, pendingTimers, burstLength, runsSinceTrigger,
                 labelDecorationCache, decorationInstances, liveHandles,
                 editorDecorations>>
  /\ UNCHANGED <<docVars, colorVars, lensVars, codecVars, classVars, copyVars>>

NextSwatch ==
  \/ SwatchEditorChanged
  \/ SwatchTextChanged
  \/ SwatchDeactivate

SpecSwatch == InitSwatch /\ [][NextSwatch]_vars

----------------------------------------------------------------------------
(* Every operation on one document: the text changes by accepted edits only.
   The features share nothing but the text, and a run takes up one of them:
   the colour picker, the lenses, the copy command or the decorations of
   one of the variants. *)

FrameDocs == {<<LinePadded, LineNonHex>>, <<LineUpper, LineBlank>>, <<LineEmpty>>}

InitFrame ==
  /\ doc \in FrameDocs
  /\ languageId = "pyxpal"
  /\ lastEvent = "activate"
  /\ diagnosticCollection = updateDiagnostics({}, doc, languageId)
  /\ ColorIdle /\ LensIdle /\ CopyIdle /\ CodecIdle /\ ClassIdle /\ DecoIdle

PickerOnly == LensIdle /\ CopyIdle /\ DecoIdle
LensOnly == ColorIdle /\ CopyIdle /\ DecoIdle
CopyOnly == ColorIdle /\ LensIdle /\ DecoIdle
LabelOnly ==
  /\ ColorIdle /\ LensIdle /\ CopyIdle
  /\ decorationInstances = <<>>
  /\ \A h \in liveHandles : \E k \in 1..Len(labelDecorationCache) :
       labelDecorationCache[k].type = h
SwatchOnly ==
  /\ ColorIdle /\ LensIdle /\ CopyIdle
  /\ timeout = 0 /\ labelDecorationCache = <<>>

\* the document is opened again with the text it was closed with
ReopenEvent == OpenEvent /\ doc' = doc

NextFrame ==
  \/ PickerOnly /\ ProvideDocumentColors
  \/ PickerOnly /\ ProvideColorPresentations
  \/ PickerOnly /\ AcceptPresentation
  \/ PickerOnly /\ CloseEvent
  \/ PickerOnly /\ ReopenEvent
  \/ LensOnly /\ ProvideCodeLensesSync
  \/ LensOnly /\ ResolveCodeLens
  \/ LensOnly /\ ProvideCodeLensesStart
  \/ LensOnly /\ CancelCodeLenses
  \/ LensOnly /\ ProvideCodeLensesFinish
  \/ CopyOnly /\ CopyCommandSync
  \/ CopyOnly /\ CopyCommandAsync
  \/ CopyOnly /\ WriteFulfilled
  \/ CopyOnly /\ WriteRejected
  \/ LabelOnly /\ ActiveEditorChanged
  \/ LabelOnly /\ TimerFires
  \/ LabelOnly /\ Deactivate
  \/ SwatchOnly /\ SwatchEditorChanged
  \/ SwatchOnly /\ SwatchDeactivate

SpecFrame == InitFrame /\ [][NextFrame]_vars

----------------------------------------------------------------------------
(* Properties *)

\* the text is exactly six characters of 0-9, A-F, a-f
ExactlySixHex(t) == Len(t) = 6 /\ \A i \in 1..Len(t) : t[i] \in HexCodes

UpperHexCodes == (48..57) \cup (65..70)

\* C1: for every 6-character hex text h, toHexColor(parseHexColor(h)) has the
\* three byte values of h and is h in upper case, whatever the case of h
C1_RoundTrip ==
  codecPc = "encoded" =>
    /\ Len(encoded) = 6
    /\ \A i \in 1..Len(encoded) : encoded[i] \in UpperHexCodes
    /\ \A k \in 0..2 :
         ParseInt16(Substring(encoded, 2 * k, 2 * k + 2))
           = ParseInt16(Substring(hexIn, 2 * k, 2 * k + 2))
    /\ \A i \in 1..Len(encoded) :
         encoded[i] = IF hexIn[i] >= 97 THEN hexIn[i] - 32 ELSE hexIn[i]

\* "fF00fF" was decoded and encoded
C1_Witness ==
  codecPc = "encoded" /\ hexIn = <<102, 70, 48, 48, 102, 70>>

\* C2: the classifier answers valid exactly when the trimmed text is six
\* characters of [0-9A-Fa-f], and the regex copies with and without the i
\* flag give the same answer
C2_Classifier ==
  classPc = "done" =>
    /\ verdict.flagI <=> ExactlySixHex(Trim(text))
    /\ verdict.noFlag <=> verdict.flagI

\* "FF aFF", six characters with a space inside, was classified invalid
C2_Witness ==
  classPc = "done" /\ text = <<70, 70, 32, 97, 70, 70>> /\ ~verdict.flagI

\* index of the last line with a character that is no whitespace, -1 if none
UsedRangeEnd(d) ==
  LET used == {i \in 0..(Len(d) - 1) :
                 \E j \in 1..Len(d[i + 1]) : ~IsWhitespace(d[i + 1][j])}
  IN IF used = {} THEN -1 ELSE CHOOSE i \in used : \A j \in used : j <= i

IsColorLine(d, i) == ExactlySixHex(Trim(d[i + 1]))

\* the lines a warning marker is due on
MarkerLines(d) == {i \in 0..UsedRangeEnd(d) : ~IsColorLine(d, i)}

ExactMarkers(ds, d) ==
  /\ Len(ds) = Cardinality(MarkerLines(d))
  /\ {ds[j].range.startLine : j \in 1..Len(ds)} = MarkerLines(d)
  /\ \A j \in 1..Len(ds) :
       /\ ds[j].severity = "Warning"
       /\ ds[j].range = Range(ds[j].range.startLine, 0, ds[j].range.startLine,
                              Len(d[ds[j].range.startLine + 1]))

\* C3: the diagnostics of a document are exactly one warning marker for each
\* line of 0..k that is no colour line, k the last non-blank line; none for a
\* colour line or a line after k; an empty set when every line is blank
C3_Markers ==
  \A ds \in diagnosticCollection : ExactMarkers(ds, doc)

\* a blank line inside the used range carries a marker, after a change
C3_Witness ==
  /\ lastEvent = "change"
  /\ \E ds \in diagnosticCollection :
       \E j \in 1..Len(ds) :
         /\ Trim(doc[ds[j].range.startLine + 1]) = <<>>
         /\ ds[j].range.startLine < UsedRangeEnd(doc)

\* the commands emitted for line i: of the lenses of the asynchronous
\* provider, or of the lens of extension.js once resolved
LineTokens(i) ==
  IF lensVariant = "async"
  THEN {lenses[k].command : k \in {j \in 1..Len(lenses) : lenses[j].range.startLine = i}}
  ELSE {resolved.command : x \in {y \in {0} : resolved.range.startLine = i}} \ {NoCommand}

IsIndexToken(c, i) ==
  /\ c.command = "pyxpal.copyLabel"
  /\ c.arguments = <<ToStringDecimal(i)>>
  /\ c.title = "$(symbol-numeric) " \o ToStringDecimal(i)

IsLabelToken(c) ==
  /\ c.command = "pyxpal.copyLabel"
  /\ ~(\E i \in 0..(PadLen + MaxLines) : IsIndexToken(c, i))

LabelTokens(i) == {c.arguments[1] : c \in {x \in LineTokens(i) : IsLabelToken(x)}}

\* the file gives the constants a declaration
SourceAvailable(py) ==
  py.readable /\ \E k \in 1..Len(py.lines) : py.lines[k].isConst

\* the name the file maps the value i to: that of its last declaration of i
SourceLabel(py, i) ==
  LET ks == {k \in 1..Len(py.lines) : py.lines[k].isConst /\ py.lines[k].value = i}
  IN IF ~py.readable \/ ks = {} THEN Undefined
     ELSE PyxpalBasename \o ".COLOR_"
            \o py.lines[CHOOSE k \in ks : \A j \in ks : j <= k].name

\* the label adapter has emitted the tokens of line i
TokensFinal(i) ==
  /\ lensPc = "done" /\ ~lensToken
  /\ IsColorLine(doc, i)
  /\ lensVariant = "sync" => resolved # Null /\ resolved.range.startLine = i

\* C4: with no external constants source, every colour line i gets an index
\* token for i, and a label token, the i-th entry of the static table, exactly
\* when i < 16
C4_StaticLabels ==
  \A i \in 0..(Len(doc) - 1) :
    (TokensFinal(i) /\ ~SourceAvailable(pyFile)) =>
      /\ \E c \in LineTokens(i) : IsIndexToken(c, i)
      /\ LabelTokens(i) = IF i < 16 THEN {lineLabels[i + 1]} ELSE {}

\* C5: the label token of a colour line i is the name the source maps i to
\* when the source is available, the static table entry when the source is
\* absent, unreadable or unparseable, and is omitted only if neither has one
C5_LabelResolution ==
  \A i \in 0..(Len(doc) - 1) :
    (TokensFinal(i) /\ lensVariant = "async") =>
      /\ SourceLabel(pyFile, i) # Undefined => LabelTokens(i) = {SourceLabel(pyFile, i)}
      /\ ~SourceAvailable(pyFile) =>
           LabelTokens(i) = IF i < 16 THEN {lineLabels[i + 1]} ELSE {}
      /\ LabelTokens(i) = {} => SourceLabel(pyFile, i) = Undefined /\ i >= 16

\* number of whitespace characters the line starts with
LeadingWhitespace(l) ==
  Cardinality({j \in 1..Len(l) : \A m \in 1..j : IsWhitespace(l[m])})

ColorLines(d) == {i \in 0..(Len(d) - 1) : IsColorLine(d, i)}

\* the range covers the trimmed text of its line and nothing else
IsTrimmedSpan(d, r) ==
  /\ r.startLine = r.endLine
  /\ r.startChar = LeadingWhitespace(d[r.startLine + 1])
  /\ r.endChar = r.startChar + 6
  /\ SubSeq(d[r.startLine + 1], r.startChar + 1, r.endChar) = Trim(d[r.startLine + 1])

\* C6: provideDocumentColors gives one binding per colour line and none for
\* another line, its range the span of the trimmed text and its colour the
\* decoded text; provideColorPresentations gives one presentation whose edit
\* replaces the range it was given, not the whole line, by the encoded colour
C6_Picker ==
  /\ (colorsPc = "done" /\ ~colorToken) =>
       /\ Len(colors) = Cardinality(ColorLines(doc))
       /\ {colors[k].range.startLine : k \in 1..Len(colors)} = ColorLines(doc)
       /\ \A k \in 1..Len(colors) :
            /\ IsTrimmedSpan(doc, colors[k].range)
            /\ colors[k].color = parseHexColor(Trim(doc[colors[k].range.startLine + 1]))
  /\ pickRequest # NoRequest =>
       /\ Len(presentations) = 1
       /\ presentations[1].textEdit.range = pickRequest.range
       /\ IsTrimmedSpan(doc, presentations[1].textEdit.range)
       /\ presentations[1].textEdit.newText = toHexColor(pickRequest.color)
       /\ presentations[1].label = toHexColor(pickRequest.color)

\* white was chosen for a colour line that starts with whitespace
C6_Witness ==
  /\ pickRequest # NoRequest
  /\ pickRequest.range.startChar > 0
  /\ Len(presentations) = 1
  /\ presentations[1].textEdit.newText = <<70, 70, 70, 70, 70, 70>>

\* C7: a finished execution of pyxpal.copyLabel has copied the text it was
\* given and surfaced exactly one notification: a confirmation when the
\* clipboard write succeeded, an error and no confirmation when it failed
C7_CopyNotifies ==
  copyPc = "done" =>
    /\ Len(notifications) = 1
    /\ writeOk => clipboard = copyArg /\ notifications[1].kind = "info"
    /\ ~writeOk => notifications[1].kind = "error"

\* C8: a call whose token was cancelled before it scanned, also while the
\* read of the constants was pending, returns an empty list
C8_CancelledEmpty ==
  /\ (colorsPc = "done" /\ colorToken) => colors = <<>>
  /\ (lensPc = "done" /\ lensToken) => lenses = <<>>

\* the read of a file with constants settled after the call was cancelled,
\* on a document with a colour line
C8_Witness ==
  /\ lensPc = "done" /\ lensToken /\ lensVariant = "async"
  /\ pyFile = PyShifted
  /\ ColorLines(doc) # {}

HasBinding(i) == \E k \in 1..Len(colors) : colors[k].range.startLine = i
HasMarker(i) ==
  \E ds \in diagnosticCollection : \E j \in 1..Len(ds) : ds[j].range.startLine = i
HasToken(i) == \E k \in 1..Len(lenses) : lenses[k].range.startLine = i
HasIndexToken(i) ==
  \E k \in 1..Len(lenses) :
    lenses[k].range.startLine = i /\ IsIndexToken(lenses[k].command, i)

\* the three adapters have scanned the text of now
AllScanned ==
  /\ colorsPc = "done" /\ ~colorToken
  /\ lensPc = "done" /\ ~lensToken /\ lensVariant = "async"
  /\ diagnosticCollection # {}

\* C9: every line of the used range has either a colour binding, an index
\* token and no marker, or a marker and neither binding nor token; a line
\* after the used range has nothing
C9_AdaptersAgree ==
  AllScanned =>
    \A i \in 0..(Len(doc) - 1) :
      IF i <= UsedRangeEnd(doc)
      THEN \/ HasBinding(i) /\ HasIndexToken(i) /\ ~HasMarker(i)
           \/ HasMarker(i) /\ ~HasBinding(i) /\ ~HasToken(i)
      ELSE ~HasBinding(i) /\ ~HasToken(i) /\ ~HasMarker(i)

\* a document with a colour line that starts with whitespace, an invalid
\* line in the used range and a blank line after it
C9_Witness ==
  /\ AllScanned
  /\ \E i \in 0..(Len(doc) - 1) : HasBinding(i) /\ doc[i + 1] = LinePadded
  /\ \E i \in 0..(Len(doc) - 1) : HasMarker(i)
  /\ UsedRangeEnd(doc) < Len(doc) - 1

\* C10: once the handler of an open or change event has run, the stored
\* diagnostics of the document are the markers of its text of now
C10_DiagnosticsFresh ==
  (languageId = "pyxpal" /\ lastEvent \in {"open", "change"}) =>
    diagnosticCollection = {ComputeDiagnostics(doc)}

\* a change left a text without any line to mark
C10_Witness ==
  /\ languageId = "pyxpal" /\ lastEvent = "change"
  /\ diagnosticCollection = {<<>>}
  /\ ColorLines(doc) # {}

\* C13: from a close event until the next open or change event of the
\* document the collection holds no entry for it, and at every moment the
\* collection holds an entry only for a document whose language is pyxpal
C13_ClosedOrForeignEmpty ==
  /\ lastEvent = "close" => diagnosticCollection = {}
  /\ languageId # "pyxpal" => diagnosticCollection = {}

\* a pyxpal document whose text has lines to mark was closed
C13_Witness ==
  /\ lastEvent = "close" /\ languageId = "pyxpal"
  /\ ComputeDiagnostics(doc) # <<>>
  /\ diagnosticCollection = {}

\* C12: every presentation of a colour with channels in [0,1] carries six
\* characters of 0-9, A-F, whatever the case of the text it replaces, and a
\* step of the picker (an accepted edit included) leaves the set of colour
\* lines and the stored warning markers as they were
C12_PickerKeepsValidity ==
  [][ /\ \A k \in 1..Len(presentations') :
           /\ Len(presentations'[k].label) = 6
           /\ \A j \in 1..6 : presentations'[k].label[j] \in UpperHexCodes
           /\ presentations'[k].textEdit.newText = presentations'[k].label
      /\ ColorLines(doc') = ColorLines(doc)
      /\ MarkerLines(doc') = MarkerLines(doc)
      /\ diagnosticCollection' = diagnosticCollection ]_vars

\* an edit replaced the span of the colour line written in mixed case with
\* whitespace around it, and the whitespace is still there
C12_Witness ==
  /\ lastEvent = "change"
  /\ \E i \in 1..Len(doc) :
       /\ Len(doc[i]) = Len(LinePadded)
       /\ doc[i] # LinePadded
       /\ Trim(doc[i]) \in {toHexColor(c) : c \in PickedColors}
       /\ FirstNonWhitespaceCharacterIndex(doc[i]) = 2
  /\ ColorLines(doc) # {}
  /\ diagnosticCollection = {ComputeDiagnostics(doc)}

\* the decorations on the editors are those of the labelled colour lines of
\* the text of editor e, each of a type that is not disposed
DecorationsReflect(e) ==
  LET d == EditorDoc(e, doc)
      labelled == {i \in ColorLines(d) : i < Len(lineLabels)}
  IN /\ {<<x.editor, x.contentText, x.ranges>> : x \in editorDecorations}
          = {<<e, lineLabels[i + 1], <<Range(i, 0, i, Len(d[i + 1]))>>>> : i \in labelled}
     /\ Cardinality(editorDecorations) = Cardinality(labelled)
     /\ \A x \in editorDecorations : x.type \in liveHandles

ActiveIsPyxpal == activeEditor # "none" /\ EditorLang(activeEditor, languageId) = "pyxpal"

\* at most one timer is pending and it is the one held in timeout; a burst
\* has one run, after its last trigger; with the timer fired the decorations
\* are those of the text of the active pyxpal document
DebounceInv ==
  /\ Cardinality(pendingTimers) <= 1
  /\ pendingTimers \subseteq {timeout}
  /\ timeout = 0 => (pendingTimers = {} /\ runsSinceTrigger = 0 /\ activeEditor = "none")
  /\ timeout # 0 => runsSinceTrigger + Cardinality(pendingTimers) = 1
  /\ (activated /\ pendingTimers = {} /\ ActiveIsPyxpal) =>
       DecorationsReflect(activeEditor)

\* a timer of the host fires
TimerFired == pendingTimers' # pendingTimers /\ pendingTimers' \subseteq pendingTimers

\* C14: in the debounced variant at most one timer is pending, every trigger
\* replaces it, a burst of triggers ends in exactly one updateDecorations run
\* after the last trigger; the run uses the editor active when the timer
\* fires, and whenever no timer is pending the decorations are those of the
\* text of the active pyxpal document
C14_Debounce ==
  /\ []DebounceInv
  /\ [][TimerFired =>
          IF ActiveIsPyxpal
          THEN DecorationsReflect(activeEditor)' \/ ~activated
          ELSE UNCHANGED <<editorDecorations, liveHandles, labelDecorationCache>>]_vars

\* three or more triggers came without a run between them, the text of the
\* active document changed last, and one run decorated its labelled lines
C14_Witness ==
  /\ burstLength = MaxBurst /\ runsSinceTrigger = 1 /\ pendingTimers = {}
  /\ lastEvent = "change" /\ activeEditor = "doc" /\ languageId = "pyxpal"
  /\ editorDecorations # {}
  /\ DecorationsReflect("doc")

\* the types the registries hold
RegisteredHandles ==
  {labelDecorationCache[k].type : k \in 1..Len(labelDecorationCache)}
    \cup SeqRange(decorationInstances)

\* C15: every decoration type created and not disposed is in the registry of
\* its variant, the decorations on the editors are of registered types only
\* (the types of the earlier run are disposed), and after deactivate the
\* label cache is empty
C15_NoHandleLeak ==
  /\ liveHandles \subseteq RegisteredHandles
  /\ \A x \in editorDecorations : x.type \in RegisteredHandles
  /\ ~activated => labelDecorationCache = <<>>

\* the text after the step is the text before it with the span of the
\* binding the picker was opened on replaced by the label of the presentation
IsAcceptedEdit ==
  /\ presentations # <<>>
  /\ Len(doc') = Len(doc)
  /\ LET r == pickRequest.range
         i == r.startLine + 1
     IN /\ \A j \in 1..Len(doc) : j # i => doc'[j] = doc[j]
        /\ doc'[i] = SubSeq(doc[i], 1, r.startChar) \o presentations[1].label
                       \o SubSeq(doc[i], r.endChar + 1, Len(doc[i]))

\* C11: a step of the system that changes the text of the document is an
\* accepted colour-presentation edit; scanning for colours, providing and
\* resolving lenses, the diagnostics handlers, the decoration runs and the
\* copy command leave every line as it is
C11_TextFrame == [][doc' # doc => IsAcceptedEdit]_vars

\* an accepted edit rewrote the span of the padded line, and the text has
\* been scanned for colours again since
C11_Witness ==
  /\ doc # <<LinePadded, LineNonHex>>
  /\ Len(doc) = 2 /\ doc[2] = LineNonHex
  /\ Len(doc[1]) = Len(LinePadded)
  /\ lastEvent = "change" /\ colorsPc = "done" /\ Len(colors) = 1

----------------------------------------------------------------------------
====
